---------------------------- MODULE Spec2Model ----------------------------
(***************************************************************************)
(* Model of opencood/tools/inference.py: the evaluation driver main() and  *)
(* the corner reordering result2dict().                                    *)
(*                                                                         *)
(* Numbers: IoU values, thresholds and scores are in hundredths (30 is     *)
(* 0.30); communication-rate samples are in tenths; values that the code   *)
(* divides are exact rationals [num, den]; the report's "{:.04f}" and      *)
(* "{:.06f}" fields are integers in units of 10^-4 and 10^-6.              *)
(*                                                                         *)
(* The writes of save_prediction_gt and simple_vis.visualize (lines        *)
(* 197-234) go to files under model_dir/npy and model_dir/vis_* only; they *)
(* touch none of the variables below and are not modelled.                 *)
(***************************************************************************)
EXTENDS Integers, Sequences, FiniteSets, Bags, TLC

VARIABLES
    pc,                 \* position of main()
    fusion_method,      \* opt.fusion_method
    comm_thre,          \* opt.comm_thre: None or a rational
    eval_epoch,         \* opt.eval_epoch: None or an epoch name
    test_dir,           \* hypes['test_dir'], a path as a sequence of parts
    hypes_thre,         \* hypes[...]['communication']['thre'] when overridden
    test_inference,     \* line 98-100
    dataset_built,      \* build_dataset has run (line 106)
    model_loaded,       \* load_saved_model has run (line 126/128)
    epoch_id,           \* line 126/128
    data_loader,        \* sample_idx of the frames, in the order yielded
    i,                  \* number of frames taken from data_loader
    frame,              \* what the fusion pipeline returned for the frame
    result_stat,        \* line 133-135
    total_comm_rates,   \* line 138
    comm_rates,         \* line 237-240 (the reported mean)
    ap,                 \* ap_30, ap_50, ap_70 of line 241
    result_txt,         \* lines of model_dir/result.txt
    result_txt0,        \* the lines result.txt held when main() started
    outcomes,           \* history: the pipeline result of every frame taken
    n_calls,            \* history: calls of caluclate_tp_fp per threshold
    n_eval,             \* history: calls of eval_final_results
    handed,             \* history: arguments of the last caluclate_tp_fp
    rpc,                \* position of the result2dict driver
    box3d_tensor,       \* result2dict argument
    score_tensor,       \* result2dict argument
    output_dict,        \* result2dict return value
    box3d_0             \* the box3d_tensor first handed to result2dict

mainvars == <<pc, fusion_method, comm_thre, eval_epoch, test_dir, hypes_thre,
              test_inference, dataset_built, model_loaded, epoch_id,
              data_loader, i, frame, result_stat, total_comm_rates,
              comm_rates, ap, result_txt, result_txt0, outcomes, n_calls,
              n_eval, handed>>

boxvars == <<rpc, box3d_tensor, score_tensor, output_dict, box3d_0>>

vars == <<mainvars, boxvars>>

\* Python's None and a value that is not None
None == <<>>

Some(x) == <<x>>

Val(o) == o[1]

(***************************************************************************)
(* Bounds of the model.                                                    *)
(***************************************************************************)
MaxFrames == 3

MaxBoxes == 1

(***************************************************************************)
(* Rationals and the fixed-point formatting of the report line.            *)
(***************************************************************************)
Rat(n, d) == [num |-> n, den |-> d]

RECURSIVE Pow10(_)
Pow10(d) == IF d = 0 THEN 1 ELSE 10 * Pow10(d - 1)

\* "{:.0<d>f}".format(r): r rounded to d decimals (ties to even), in 10^-d
Fmt(r, d) ==
    LET n == r.num * Pow10(d)
        q == n \div r.den
        rem == n % r.den
    IN  IF 2 * rem > r.den THEN q + 1
        ELSE IF 2 * rem = r.den THEN q + (q % 2)
        ELSE q

RECURSIVE SeqSum(_)
SeqSum(s) == IF s = <<>> THEN 0 ELSE Head(s) + SeqSum(Tail(s))

(***************************************************************************)
(* result2dict (lines 61-85).  A box is its array of 8 corners; a corner   *)
(* stands for one row of the (8, 3) array.  numpy's b3d[perm] is a new     *)
(* array whose row k is row perm[k] of b3d (indices from 0).               *)
(***************************************************************************)
\* faulty variant of perm_pred (sensitivity of C10): index 6 twice, 2 lost
perm_pred_dup == <<0, 4, 7, 3, 1, 5, 6, 6>>

\* line 62-63
perm_pred == <<0, 4, 7, 3, 1, 5, 6, 2>>

perm_label == <<3, 2, 1, 0, 7, 6, 5, 4>>

Take(b3d, perm) == [k \in 1..Len(perm) |-> b3d[perm[k] + 1]]

\* line 68-70: one box of the loop
ReorderBox(b3d, score) ==
    IF score # None THEN Take(Take(b3d, perm_label), perm_pred)
    ELSE b3d

\* the value result2dict returns
result2dict(box3d, score) ==
    [boxes_3d  |-> [k \in 1..Len(box3d) |-> ReorderBox(box3d[k], score)],
     scores_3d |-> [k \in 1..Len(box3d) |->
                        IF score # None THEN Val(score)[k] ELSE 100],
     labels_3d |-> [k \in 1..Len(box3d) |-> 2]]

\* the caller's array after the call: line 65 and 68-70 only read it
Result2DictInput(box3d, score) == box3d

(***************************************************************************)
(* eval_utils.caluclate_tp_fp and eval_utils.eval_final_results are called *)
(* by main() and defined outside inference.py; they follow sections 4.3    *)
(* and 4.5 of the specification, over the accumulator of lines 133-135     *)
(* ('tp' and 'fp' flag lists and a 'gt' count per threshold).              *)
(***************************************************************************)
Thresholds == {30, 50, 70}

\* indices of det_score in descending score order, ties in index order
RECURSIVE ScoreOrder(_, _)
ScoreOrder(det_score, left) ==
    IF left = {} THEN <<>>
    ELSE LET best == CHOOSE d \in left :
                        \A e \in left :
                            \/ det_score[d] > det_score[e]
                            \/ det_score[d] = det_score[e] /\ d <= e
         IN  <<best>> \o ScoreOrder(det_score, left \ {best})

\* greedy one-to-one matching of section 4.3: the TP flag of each detection
RECURSIVE Classify(_, _, _, _)
Classify(order, ious, unmatched, iou_thresh) ==
    IF order = <<>> THEN <<>>
    ELSE LET d == Head(order)
             hit == {g \in unmatched : ious[d][g] >= iou_thresh}
         IN  IF hit = {} THEN <<0>> \o Classify(Tail(order), ious, unmatched,
                                                iou_thresh)
             ELSE LET g == CHOOSE x \in hit :
                              \A y \in unmatched :
                                  \/ ious[d][x] > ious[d][y]
                                  \/ ious[d][x] = ious[d][y] /\ x <= y
                  IN  <<1>> \o Classify(Tail(order), ious, unmatched \ {g},
                                        iou_thresh)

caluclate_tp_fp(det_boxes, det_score, gt_boxes, ious, stat, iou_thresh) ==
    LET tp == Classify(ScoreOrder(det_score, 1..Len(det_boxes)), ious,
                       1..Len(gt_boxes), iou_thresh)
        fp == [k \in 1..Len(tp) |-> 1 - tp[k]]
    IN  [stat EXCEPT ![iou_thresh] =
            [tp |-> @.tp \o tp, fp |-> @.fp \o fp,
             gt |-> @.gt + Len(gt_boxes)]]

RECURSIVE Factorial(_)
Factorial(n) == IF n = 0 THEN 1 ELSE n * Factorial(n - 1)

SetMax(S) == CHOOSE x \in S : \A y \in S : y <= x

\* section 4.5: AP as an exact rational
calculate_ap(stat, iou_thresh) ==
    LET tp == stat[iou_thresh].tp
        n == Len(tp)
        gt == stat[iou_thresh].gt
        L == Factorial(n)
        cumTP(j) == SeqSum(SubSeq(tp, 1, j))
        \* interpolated precision at i, times L
        prec(k) == SetMax({cumTP(j) * (L \div j) : j \in k..n})
    IN  IF n = 0 \/ gt = 0 THEN Rat(0, 1)
        ELSE Rat(SeqSum([k \in 1..n |-> IF tp[k] = 1 THEN prec(k) ELSE 0]),
                 gt * L)

eval_final_results(stat) == [t \in Thresholds |-> calculate_ap(stat, t)]

(***************************************************************************)
(* The inputs of a run.                                                    *)
(***************************************************************************)
FusionModes == {"late", "early", "intermediate", "intermediate_with_comm",
                "no"}

\* the accepted names and one the parser's help text names but main rejects
FusionArgs == FusionModes \cup {"no_w_uncertainty"}

CommThreArgs == {None, Some(Rat(1, 100))}

EvalEpochArgs == {None, Some("25")}

\* the newest checkpoint of model_dir, which load_saved_model picks
LatestEpoch == "30"

TestDirs == {<<"dataset", "OPV2V", "test">>,
             <<"dataset", "dair", "test.json">>}

\* `part in path` of lines 99 and 102
InPath(part, path) == \E k \in 1..Len(path) : path[k] = part

PriorReports == {<<>>, <<"earlier line">>}

\* sample_idx of the k-th frame the data loader yields (shuffle=False)
SampleIdx(k) == 100 + k

\* the corners of a box as the fusion pipeline emits them
RawBox == <<0, 1, 2, 3, 4, 5, 6, 7>>

SampleValues == {1, 2, 3}

IoUValues == {40, 80}

\* (pred_box_tensor, pred_score, gt_box_tensor): no prediction; a
\* prediction in a frame without ground truth; a prediction and one label
Detections ==
    {[pred_box_tensor |-> None, pred_score |-> None,
      gt_box_tensor |-> <<RawBox>>, ious |-> <<>>]}
    \cup {[pred_box_tensor |-> Some(<<RawBox>>), pred_score |-> Some(<<90>>),
           gt_box_tensor |-> <<>>, ious |-> << <<>> >>]}
    \cup {[pred_box_tensor |-> Some(<<RawBox>>), pred_score |-> Some(<<90>>),
           gt_box_tensor |-> <<RawBox>>, ious |-> << <<v>> >>] :
          v \in IoUValues}

\* what inference_utils.inference_*(batch_data, model, dataset) may return
PipelineResults(method) ==
    IF method = "intermediate_with_comm"
    THEN {[det |-> d, comm_rates |-> Some(c)] :
             d \in Detections, c \in SampleValues}
    ELSE {[det |-> d, comm_rates |-> None] : d \in Detections}

EmptyStat == [t \in Thresholds |-> [tp |-> <<>>, fp |-> <<>>, gt |-> 0]]

NoOutput == [boxes_3d |-> <<>>, scores_3d |-> <<>>, labels_3d |-> <<>>]

BoxIdle ==
    /\ rpc = "idle"
    /\ box3d_tensor = <<>>
    /\ score_tensor = None
    /\ output_dict = NoOutput
    /\ box3d_0 = <<>>

MainStart ==
    /\ pc = "start"
    /\ hypes_thre = None
    /\ test_inference = FALSE
    /\ dataset_built = FALSE
    /\ model_loaded = FALSE
    /\ epoch_id = "unset"
    /\ data_loader = <<>>
    /\ i = 0
    /\ frame = None
    /\ result_stat = EmptyStat
    /\ total_comm_rates = <<>>
    /\ comm_rates = None
    /\ ap = None
    /\ result_txt = result_txt0
    /\ outcomes = <<>>
    /\ n_calls = [t \in Thresholds |-> 0]
    /\ n_eval = 0
    /\ handed = None

Init ==
    /\ fusion_method \in FusionArgs
    /\ comm_thre \in CommThreArgs
    /\ eval_epoch \in EvalEpochArgs
    /\ test_dir \in TestDirs
    /\ result_txt0 \in PriorReports
    /\ MainStart
    /\ BoxIdle

(***************************************************************************)
(* main(), lines 87-248.                                                   *)
(***************************************************************************)
opts == <<fusion_method, comm_thre, eval_epoch, test_dir, result_txt0>>

\* faulty variant of CheckFusionMethod (sensitivity of C4): no assert
CheckFusionMethodOff ==
    /\ pc = "start"
    /\ pc' = "config"
    /\ UNCHANGED <<opts, hypes_thre, test_inference, dataset_built,
                   model_loaded, epoch_id, data_loader, i, frame,
                   result_stat, total_comm_rates, comm_rates, ap,
                   result_txt, outcomes, n_calls, n_eval, handed, boxvars>>

\* line 88-89: the assert on the fusion-mode name
CheckFusionMethod ==
    /\ pc = "start"
    /\ pc' = IF fusion_method \in FusionModes THEN "config" ELSE "error"
    /\ UNCHANGED <<opts, hypes_thre, test_inference, dataset_built,
                   model_loaded, epoch_id, data_loader, i, frame,
                   result_stat, total_comm_rates, comm_rates, ap,
                   result_txt, outcomes, n_calls, n_eval, handed, boxvars>>

\* line 91-103
LoadConfig ==
    /\ pc = "config"
    /\ hypes_thre' = IF comm_thre # None THEN comm_thre ELSE hypes_thre
    /\ test_inference' = InPath("test.json", test_dir)
    /\ pc' = "dataset"
    /\ UNCHANGED <<opts, dataset_built, model_loaded, epoch_id, data_loader,
                   i, frame, result_stat, total_comm_rates, comm_rates, ap,
                   result_txt, outcomes, n_calls, n_eval, handed, boxvars>>

\* line 105-113: the test set holds any number of frames up to the bound
BuildDataset ==
    /\ pc = "dataset"
    /\ \E n \in 0..MaxFrames : data_loader' = [k \in 1..n |-> SampleIdx(k)]
    /\ dataset_built' = TRUE
    /\ pc' = "model"
    /\ UNCHANGED <<opts, hypes_thre, test_inference, model_loaded, epoch_id,
                   i, frame, result_stat, total_comm_rates, comm_rates, ap,
                   result_txt, outcomes, n_calls, n_eval, handed, boxvars>>

\* line 115-138
LoadModel ==
    /\ pc = "model"
    /\ model_loaded' = TRUE
    /\ epoch_id' = IF eval_epoch # None THEN Val(eval_epoch) ELSE LatestEpoch
    /\ result_stat' = EmptyStat
    /\ total_comm_rates' = <<>>
    /\ pc' = "loop"
    /\ UNCHANGED <<opts, hypes_thre, test_inference, dataset_built,
                   data_loader, i, frame, comm_rates, ap, result_txt,
                   outcomes, n_calls, n_eval, handed, boxvars>>

\* the data loader's next batch: frames come in the loader's order
NextBatch == i + 1

\* faulty variant of AddCommRates (sensitivity of C6): inserts in front
AddCommRatesFront(total, method, rate) ==
    IF method = "intermediate_with_comm" THEN <<Val(rate)>> \o total
    ELSE total

\* line 165-170: only intermediate_with_comm returns comm_rates, and main
\* appends it before it looks at pred_box_tensor
AddCommRates(total, method, rate) ==
    IF method = "intermediate_with_comm" THEN Append(total, Val(rate))
    ELSE total

\* line 140-173: take the next frame and run its fusion pipeline
Dispatch ==
    /\ pc = "loop"
    /\ i < Len(data_loader)
    /\ i' = i + 1
    /\ IF fusion_method \in FusionModes
       THEN \E r \in PipelineResults(fusion_method) :
               /\ frame' = Some([frame_id |-> data_loader[NextBatch],
                                 det |-> r.det])
               /\ total_comm_rates' =
                      AddCommRates(total_comm_rates, fusion_method,
                                   r.comm_rates)
               /\ outcomes' = Append(outcomes,
                                     [frame_id |-> data_loader[NextBatch],
                                      det |-> r.det,
                                      comm_rates |-> r.comm_rates])
               /\ pc' = "check"
       ELSE /\ pc' = "error"
            /\ UNCHANGED <<frame, total_comm_rates, outcomes>>
    /\ UNCHANGED <<opts, hypes_thre, test_inference, dataset_built,
                   model_loaded, epoch_id, data_loader, result_stat,
                   comm_rates, ap, result_txt, n_calls, n_eval, handed,
                   boxvars>>

\* faulty variant of SkipFrame (sensitivity of C1): counts the frame's labels
SkipFrameZeroFill ==
    /\ pc = "check"
    /\ Val(frame).det.pred_box_tensor = None
    /\ result_stat' = [t \in Thresholds |->
                          [result_stat[t] EXCEPT
                              !.gt = @ + Len(Val(frame).det.gt_box_tensor)]]
    /\ pc' = "loop"
    /\ UNCHANGED <<opts, hypes_thre, test_inference, dataset_built,
                   model_loaded, epoch_id, data_loader, i, frame,
                   total_comm_rates, comm_rates, ap, result_txt, outcomes,
                   n_calls, n_eval, handed, boxvars>>

\* line 174-175: `continue` on a frame without prediction
SkipFrame ==
    /\ pc = "check"
    /\ Val(frame).det.pred_box_tensor = None
    /\ pc' = "loop"
    /\ UNCHANGED <<opts, hypes_thre, test_inference, dataset_built,
                   model_loaded, epoch_id, data_loader, i, frame,
                   result_stat, total_comm_rates, comm_rates, ap,
                   result_txt, outcomes, n_calls, n_eval, handed, boxvars>>

\* faulty variant of EvalArgs (sensitivity of C9): the commented-out
\* result2dict calls of lines 178-181 put back
EvalArgsCanonical(f) ==
    [frame_id  |-> f.frame_id,
     det_boxes |-> result2dict(Val(f.det.pred_box_tensor),
                               f.det.pred_score).boxes_3d,
     det_score |-> Val(f.det.pred_score),
     gt_boxes  |-> result2dict(f.det.gt_box_tensor, None).boxes_3d]

\* line 182-196: the tensors main hands to caluclate_tp_fp
EvalArgs(f) ==
    [frame_id  |-> f.frame_id,
     det_boxes |-> Val(f.det.pred_box_tensor),
     det_score |-> Val(f.det.pred_score),
     gt_boxes  |-> f.det.gt_box_tensor]

\* faulty variant of EvalThresholds (sensitivity of C2): the 0.7 call lost
EvalThresholdsTwo == <<30, 50>>

\* line 186, 191, 196: the thresholds of the three calls, in call order
EvalThresholds == <<30, 50, 70>>

\* line 177: the accumulator is updated unless the test set is unlabelled
UpdatesStats == ~test_inference

RECURSIVE CallEach(_, _, _, _)
CallEach(stat, args, ious, ts) ==
    IF ts = <<>> THEN stat
    ELSE CallEach(caluclate_tp_fp(args.det_boxes, args.det_score,
                                  args.gt_boxes, ious, stat, Head(ts)),
                  args, ious, Tail(ts))

\* line 177-196
Evaluate ==
    /\ pc = "check"
    /\ Val(frame).det.pred_box_tensor # None
    /\ IF UpdatesStats
       THEN /\ result_stat' = CallEach(result_stat, EvalArgs(Val(frame)),
                                       Val(frame).det.ious, EvalThresholds)
            /\ n_calls' = [t \in Thresholds |->
                              n_calls[t] + Cardinality(
                                  {k \in 1..Len(EvalThresholds) :
                                      EvalThresholds[k] = t})]
            /\ handed' = Some(EvalArgs(Val(frame)))
       ELSE UNCHANGED <<result_stat, n_calls, handed>>
    /\ pc' = "loop"
    /\ UNCHANGED <<opts, hypes_thre, test_inference, dataset_built,
                   model_loaded, epoch_id, data_loader, i, frame,
                   total_comm_rates, comm_rates, ap, result_txt, outcomes,
                   n_eval, boxvars>>

\* faulty variant of LoopDone (sensitivity of C7): the loop may end early
LoopDoneEarly == TRUE

\* line 140: the for loop ends when the data loader is exhausted
LoopDone == i = Len(data_loader)

\* faulty variant of MeanOf (sensitivity of C5): the last sample only
MeanOfLast(total) ==
    IF Len(total) > 0 THEN Rat(total[Len(total)], 10) ELSE Rat(0, 1)

\* line 237-240
MeanOf(total) ==
    IF Len(total) > 0 THEN Rat(SeqSum(total), 10 * Len(total)) ELSE Rat(0, 1)

MeanCommRates ==
    /\ pc = "loop"
    /\ LoopDone
    /\ comm_rates' = Some(MeanOf(total_comm_rates))
    /\ pc' = "reduce"
    /\ UNCHANGED <<opts, hypes_thre, test_inference, dataset_built,
                   model_loaded, epoch_id, data_loader, i, frame,
                   result_stat, total_comm_rates, ap, result_txt, outcomes,
                   n_calls, n_eval, handed, boxvars>>

\* line 241
EvalFinal ==
    /\ pc = "reduce"
    /\ ap' = Some(eval_final_results(result_stat))
    /\ n_eval' = n_eval + 1
    /\ pc' = "report"
    /\ UNCHANGED <<opts, hypes_thre, test_inference, dataset_built,
                   model_loaded, epoch_id, data_loader, i, frame,
                   result_stat, total_comm_rates, comm_rates, result_txt,
                   outcomes, n_calls, handed, boxvars>>

\* line 244-246: the fields of msg, in the order of the format string
ReportLine(epoch, aps, rate, thre) ==
    << <<"Epoch", epoch>>,
       <<"AP @0.3", Fmt(aps[30], 4)>>,
       <<"AP @0.5", Fmt(aps[50], 4)>>,
       <<"AP @0.7", Fmt(aps[70], 4)>>,
       <<"comm_rate", Fmt(rate, 6)>> >>
    \o IF thre # None THEN << <<"comm_thre", Fmt(Val(thre), 4)>> >>
       ELSE <<>>

\* faulty variant of OpenAppend (sensitivity of C8): mode 'w'
OpenTruncate(file, msg) == <<msg>>

\* line 243 and 247: open(..., 'a+') and f.write(msg)
OpenAppend(file, msg) == Append(file, msg)

\* line 243-248
WriteReport ==
    /\ pc = "report"
    /\ result_txt' = OpenAppend(result_txt,
                                ReportLine(epoch_id, Val(ap),
                                           Val(comm_rates), comm_thre))
    /\ pc' = "done"
    /\ UNCHANGED <<opts, hypes_thre, test_inference, dataset_built,
                   model_loaded, epoch_id, data_loader, i, frame,
                   result_stat, total_comm_rates, comm_rates, ap, outcomes,
                   n_calls, n_eval, handed, boxvars>>

Next ==
    \/ CheckFusionMethod
    \/ LoadConfig
    \/ BuildDataset
    \/ LoadModel
    \/ Dispatch
    \/ SkipFrame
    \/ Evaluate
    \/ MeanCommRates
    \/ EvalFinal
    \/ WriteReport

Spec == Init /\ [][Next]_vars

(***************************************************************************)
(* result2dict on its own: a caller hands it a tensor of up to MaxBoxes    *)
(* boxes, with or without scores, and may hand the boxes it returns back   *)
(* to it.  A corner is one coordinate value.                               *)
(***************************************************************************)
Coordinates == {0, 1}

Boxes == [1..8 -> Coordinates]

BoxTensors == UNION {[1..n -> Boxes] : n \in 0..MaxBoxes}

ScoresFor(box3d) ==
    {None, Some([k \in 1..Len(box3d) |-> 90])}

InitBox ==
    /\ fusion_method = "no"
    /\ comm_thre = None
    /\ eval_epoch = None
    /\ test_dir = <<"dataset", "OPV2V", "test">>
    /\ result_txt0 = <<>>
    /\ MainStart
    /\ rpc = "call"
    /\ box3d_tensor \in BoxTensors
    /\ score_tensor \in ScoresFor(box3d_tensor)
    /\ output_dict = NoOutput
    /\ box3d_0 = box3d_tensor

\* result2dict(box3d_tensor, score_tensor), lines 61-85
CallResult2Dict ==
    /\ rpc = "call"
    /\ output_dict' = result2dict(box3d_tensor, score_tensor)
    /\ box3d_tensor' = Result2DictInput(box3d_tensor, score_tensor)
    /\ rpc' = "once"
    /\ UNCHANGED <<mainvars, score_tensor, box3d_0>>

\* the returned boxes handed to result2dict again
Reapply ==
    /\ rpc = "once"
    /\ \E sc \in {None, Some(output_dict.scores_3d)} :
          /\ score_tensor' = sc
          /\ box3d_tensor' = Result2DictInput(output_dict.boxes_3d, sc)
          /\ output_dict' = result2dict(output_dict.boxes_3d, sc)
    /\ rpc' = "twice"
    /\ UNCHANGED <<mainvars, box3d_0>>

NextBox ==
    \/ CallResult2Dict
    \/ Reapply

SpecBox == InitBox /\ [][NextBox]_vars

(***************************************************************************)
(* Properties.  The operators of this first part are used by the           *)
(* properties only.                                                        *)
(***************************************************************************)
HasPrediction(o) == o.det.pred_box_tensor # None

\* the frames taken so far whose prediction is present
Present(outs) == SelectSeq(outs, HasPrediction)

\* the accumulator and the sample list a run over the frames `outs` ends with
RECURSIVE StatOver(_)
StatOver(outs) ==
    IF outs = <<>> THEN EmptyStat
    ELSE LET o == outs[Len(outs)]
             before == StatOver(SubSeq(outs, 1, Len(outs) - 1))
         IN  IF HasPrediction(o) /\ UpdatesStats
             THEN CallEach(before, EvalArgs(o), o.det.ious, EvalThresholds)
             ELSE before

RECURSIVE CommOver(_)
CommOver(outs) ==
    IF outs = <<>> THEN <<>>
    ELSE AddCommRates(CommOver(SubSeq(outs, 1, Len(outs) - 1)),
                      fusion_method, outs[Len(outs)].comm_rates)

FieldNames(line) == [k \in 1..Len(line) |-> line[k][1]]

LastLine == result_txt[Len(result_txt)]

IsPermutation(perm) ==
    /\ Len(perm) = 8
    /\ \A k \in 1..8 : perm[k] \in 0..7
    /\ \A j, k \in 1..8 : perm[j] = perm[k] => j = k

\* the corners of a box, with their multiplicities
CornerBag(b3d) ==
    [c \in {b3d[k] : k \in 1..Len(b3d)} |->
        Cardinality({k \in 1..Len(b3d) : b3d[k] = c})]

\* the index array b3d[perm_label][perm_pred] reads b3d with
Composed == [k \in 1..8 |-> perm_label[perm_pred[k] + 1]]

\* C1: a frame whose pred_box_tensor is None leaves result_stat (tp, fp and
\* gt at 0.3, 0.5 and 0.7) exactly as it was, and main goes back to the head
\* of the frame loop instead of stopping.
C1_NoneFrameLeavesStats ==
    [][(pc = "check" /\ ~HasPrediction(Val(frame)))
          => (result_stat' = result_stat /\ pc' = "loop")]_vars

\* a frame was taken after a frame without prediction had been skipped,
\* and the accumulator still holds nothing
C1_Witness ==
    /\ pc = "check"
    /\ Len(outcomes) >= 2
    /\ ~HasPrediction(outcomes[1])
    /\ Len(outcomes[1].det.gt_box_tensor) > 0
    /\ result_stat = EmptyStat
    /\ ~test_inference

\* C2 as stated: whatever the dataset path, after the loop every threshold
\* has had one caluclate_tp_fp call per frame with a prediction.
C2_AsStated ==
    pc = "done" =>
        \A t \in Thresholds : n_calls[t] = Len(Present(outcomes))

\* C2, amended: between frames and after the loop, every threshold has had
\* one caluclate_tp_fp call per frame with a prediction, made with that
\* frame's boxes, scores and labels, when test_dir does not contain
\* "test.json"; when it does, no call is made and result_stat stays empty.
C2_UpdatesOncePerThreshold ==
    pc \in {"loop", "reduce", "report", "done"} =>
        /\ \A t \in Thresholds :
              n_calls[t] = IF InPath("test.json", test_dir) THEN 0
                           ELSE Len(Present(outcomes))
        /\ result_stat = IF InPath("test.json", test_dir) THEN EmptyStat
                         ELSE StatOver(outcomes)
        /\ \A t \in Thresholds :
              InPath("test.json", test_dir) \/
              result_stat[t].gt =
                  SeqSum([k \in 1..Len(Present(outcomes)) |->
                             Len(Present(outcomes)[k].det.gt_box_tensor)])

C2_Witness ==
    /\ pc = "done"
    /\ ~InPath("test.json", test_dir)
    /\ Len(Present(outcomes)) = 2
    /\ Len(outcomes) = 3
    /\ n_calls[70] = 2
    /\ result_stat[30].tp # result_stat[70].tp

\* C3: at the end of the run the accumulator, the sample list and the
\* reported mean are those of a run over the same frames without the frames
\* whose prediction is None, in every fusion mode.
C3_SkippedEntirely ==
    pc = "done" =>
        /\ result_stat = StatOver(Present(outcomes))
        /\ total_comm_rates = CommOver(Present(outcomes))
        /\ Val(comm_rates) = MeanOf(CommOver(Present(outcomes)))

C5_MeanOfAllSamples ==
    comm_rates # None =>
        LET m == Val(comm_rates)
            n == Len(total_comm_rates)
        IN  /\ m.den > 0
            /\ n = 0 => m.num = 0
            /\ n > 0 => m.num * 10 * n = m.den * SeqSum(total_comm_rates)
            /\ pc = "done" =>
                  /\ LastLine[5][1] = "comm_rate"
                  /\ 2 * (LastLine[5][2] * m.den - m.num * 1000000) <= m.den
                  /\ 2 * (m.num * 1000000 - LastLine[5][2] * m.den) <= m.den
            /\ (pc = "done" /\ total_comm_rates = <<1, 2, 3>>) =>
                  LastLine[5][2] = 200000

C5_Witness ==
    /\ pc = "done"
    /\ total_comm_rates = <<1, 2, 3>>
    /\ LastLine[5] = <<"comm_rate", 200000>>

\* C6: total_comm_rates is empty in the modes no, early, late and
\* intermediate; in intermediate_with_comm it holds the sample of every
\* frame taken so far, in frame order; a step only ever appends to it.
C6_CommSamples ==
    /\ [](/\ fusion_method # "intermediate_with_comm"
              => total_comm_rates = <<>>
          /\ fusion_method = "intermediate_with_comm"
              => /\ Len(total_comm_rates) = Len(outcomes)
                 /\ \A k \in 1..Len(outcomes) :
                       total_comm_rates[k] = Val(outcomes[k].comm_rates))
    /\ [][/\ Len(total_comm_rates') >= Len(total_comm_rates)
          /\ SubSeq(total_comm_rates', 1, Len(total_comm_rates))
                = total_comm_rates]_vars

C6_Witness ==
    /\ fusion_method = "intermediate_with_comm"
    /\ pc = "loop"
    /\ total_comm_rates = <<3, 1>>
    /\ ~HasPrediction(outcomes[1])

\* C7: eval_final_results is called at most once, only when every frame of
\* the data loader has been taken, and exactly once in a finished run; after
\* it no accumulator update and no sample append happens; the frames are
\* taken one per step in the data loader's order.
C7_TwoPhase ==
    /\ [](/\ n_eval <= 1
          /\ n_eval = 1 => /\ i = Len(data_loader)
                           /\ Len(outcomes) = Len(data_loader)
                           /\ pc \in {"report", "done"}
          /\ pc = "done" => n_eval = 1
          /\ Len(outcomes) = i
          /\ \A k \in 1..Len(outcomes) :
                outcomes[k].frame_id = data_loader[k])
    /\ [][/\ n_eval >= 1 => /\ result_stat' = result_stat
                            /\ n_calls' = n_calls
                            /\ total_comm_rates' = total_comm_rates
          /\ i' \in {i, i + 1}]_vars

C7_Witness ==
    /\ pc = "done"
    /\ n_eval = 1
    /\ Len(outcomes) = 3
    /\ n_calls[50] = 2

\* C8: a finished run has appended exactly one line to result.txt, written
\* after the AP values were computed, with the fields Epoch, AP @0.3,
\* AP @0.5, AP @0.7, comm_rate in this order, followed by comm_thre exactly
\* when --comm_thre was given; the earlier lines are kept; before the end
\* of the run the file is as it was.
C8_OneReportLine ==
    /\ pc # "done" => result_txt = result_txt0
    /\ pc = "done" =>
          /\ Len(result_txt) = Len(result_txt0) + 1
          /\ SubSeq(result_txt, 1, Len(result_txt0)) = result_txt0
          /\ n_eval = 1
          /\ FieldNames(LastLine) =
                <<"Epoch", "AP @0.3", "AP @0.5", "AP @0.7", "comm_rate">>
                \o IF comm_thre # None THEN <<"comm_thre">> ELSE <<>>
          /\ LastLine[1][2] = epoch_id
          /\ \A k \in 1..3 :
                LastLine[k + 1][2] = Fmt(Val(ap)[EvalThresholds[k]], 4)

C8_Witness ==
    /\ pc = "done"
    /\ result_txt0 # <<>>
    /\ comm_thre # None
    /\ Len(LastLine) = 6
    /\ LastLine[2][2] = 10000
    /\ LastLine[4][2] = 0

\* C9 as stated: the boxes handed to caluclate_tp_fp are the frame's
\* predicted and ground-truth boxes after result2dict's corner reordering.
C9_AsStated ==
    handed # None =>
        \E k \in 1..Len(outcomes) :
            /\ outcomes[k].frame_id = Val(handed).frame_id
            /\ Val(handed).det_boxes =
                  result2dict(Val(outcomes[k].det.pred_box_tensor),
                              outcomes[k].det.pred_score).boxes_3d
            /\ Val(handed).gt_boxes =
                  result2dict(outcomes[k].det.gt_box_tensor, None).boxes_3d

\* C9, amended: the boxes handed to caluclate_tp_fp are the frame's
\* predicted and ground-truth tensors exactly as the fusion pipeline
\* returned them; main puts neither through result2dict.
C9_RawTensorsHanded ==
    handed # None =>
        \E k \in 1..Len(outcomes) :
            /\ outcomes[k].frame_id = Val(handed).frame_id
            /\ Val(handed).det_boxes = Val(outcomes[k].det.pred_box_tensor)
            /\ Val(handed).det_score = Val(outcomes[k].det.pred_score)
            /\ Val(handed).gt_boxes = outcomes[k].det.gt_box_tensor

C9_Witness ==
    /\ handed # None
    /\ pc = "loop"
    /\ Len(Val(handed).gt_boxes) = 1
    /\ Val(handed).det_boxes = <<RawBox>>
    /\ Val(handed).frame_id = SampleIdx(2)

\* C10: perm_pred, perm_label and the index array that applying both gives
\* are bijections on 0..7 and perm_pred differs from perm_label; every box
\* result2dict returns has exactly the corners of the box it was given,
\* reordered by an index array that does not depend on the corners (the
\* composed one with scores, none without); the tensor handed in is
\* unchanged by the call; and this still holds of boxes reordered twice.
C10_FixedPermutation ==
    /\ IsPermutation(perm_pred)
    /\ IsPermutation(perm_label)
    /\ IsPermutation(Composed)
    /\ perm_pred # perm_label
    /\ rpc \in {"once", "twice"} =>
          /\ Len(output_dict.boxes_3d) = Len(box3d_0)
          /\ \A k \in 1..Len(box3d_0) :
                CornerBag(output_dict.boxes_3d[k]) = CornerBag(box3d_0[k])
    /\ rpc = "once" =>
          /\ box3d_tensor = box3d_0
          /\ \A k \in 1..Len(box3d_0) :
                output_dict.boxes_3d[k] =
                    IF score_tensor # None
                    THEN [c \in 1..8 |-> box3d_0[k][Composed[c] + 1]]
                    ELSE box3d_0[k]

C10_Witness ==
    /\ rpc = "twice"
    /\ score_tensor # None
    /\ Len(box3d_0) = 1
    /\ box3d_0[1] = <<0, 0, 0, 1, 0, 1, 1, 1>>
    /\ box3d_tensor[1] # box3d_0[1]
    /\ output_dict.boxes_3d[1] # box3d_tensor[1]

=============================================================================
